---- MODULE Spec2Model ----
(***************************************************************************)
(* A model of the Scout agent: the LangGraph turn loop (scout/graph.py),   *)
(* the stream classifier (scout/client.py: stream_graph_response) and the  *)
(* chat endpoint with its visualization detection (api_server.py).         *)
(*                                                                         *)
(* Text is modelled as a sequence of tokens.  Every token stands for one   *)
(* fixed piece of text; the string operations of the code (strip, find,    *)
(* replace, the two regular expressions, json.loads) are computed on the   *)
(* token sequence exactly as they act on the concatenated text.            *)
(***************************************************************************)
EXTENDS Integers, Sequences, FiniteSets, TLC

(***************************************************************************)
(* Tokens                                                                  *)
(***************************************************************************)
LB    == "{"
RB    == "}"
DATA  == "\"data\":[]"
LAYK  == "\"layout\":"
KEY   == "\"k\":"
NUM   == "1"
COMMA == ","
W     == "see"
SP    == " "
NL    == "\n\n"
MARK  == "< TOOL CALL:"
GT    == ">"
NAME  == "query_db"
RAW   == "None"

\* file references: output/<name>.json, one token per file of the output directory
REFOK    == "output/ok.json"
REFGONE  == "output/gone.json"
REFBAD   == "output/bad.json"
REFLIST  == "output/list.json"
REFBIN   == "output/bin.json"
RefToks  == {REFOK, REFGONE, REFBAD, REFLIST, REFBIN}

\* what open()/read()/json.loads give for each file of the output directory
FileKind(path) ==
    CASE path = REFOK   -> "payload"      \* an object with data and layout
      [] path = REFBAD  -> "badjson"      \* json.JSONDecodeError
      [] path = REFLIST -> "notpayload"   \* valid JSON without data/layout
      [] path = REFBIN  -> "undecodable"  \* f.read() raises UnicodeDecodeError
      [] OTHER          -> "missing"      \* os.path.exists is False

IsWs(t)    == t \in {SP, NL}
\* the marker is the one token with whitespace inside it
HasWs(t)   == IsWs(t) \/ t = MARK
IsBrace(t) == t \in {LB, RB}
IsRef(t)   == t \in RefToks

Min(S) == CHOOSE x \in S : \A y \in S : x <= y
Max(S) == CHOOSE x \in S : \A y \in S : x >= y

(***************************************************************************)
(* String operations, on index sequences: a piece of a text s is the       *)
(* sequence of the indices of s it keeps, so that the origin of every      *)
(* token of a result stays known.                                          *)
(***************************************************************************)
Ident(s) == [i \in 1..Len(s) |-> i]

Pick(s, k) == [i \in 1..Len(k) |-> s[k[i]]]

\* str.strip()
StripIdx(s, k) ==
    LET nonws == {i \in 1..Len(k) : ~IsWs(s[k[i]])}
    IN  IF nonws = {} THEN <<>> ELSE SubSeq(k, Min(nonws), Max(nonws))

RECURSIVE ReplaceIdx(_, _, _)
\* str.replace(m, ""): every occurrence of m, left to right, without overlap
ReplaceIdx(s, m, p) ==
    IF p > Len(s) THEN <<>>
    ELSE IF p + Len(m) - 1 <= Len(s) /\ SubSeq(s, p, p + Len(m) - 1) = m
         THEN ReplaceIdx(s, m, p + Len(m))
         ELSE <<p>> \o ReplaceIdx(s, m, p + 1)

(***************************************************************************)
(* json.loads on tokens.  Values are objects and the number NUM; a member  *)
(* is DATA (the key "data" with its array), or LAYK or KEY followed by a   *)
(* value.  Whitespace between tokens is skipped, as JSON allows.           *)
(***************************************************************************)
SkipWs(t, i) ==
    LET rest == {j \in i..Len(t) : ~IsWs(t[j])}
    IN  IF rest = {} THEN Len(t) + 1 ELSE Min(rest)

RECURSIVE PValue(_, _)
RECURSIVE PMembers(_, _)
\* the index after the value that starts at i, or 0 when there is none
PValue(t, i) ==
    LET a == SkipWs(t, i)
    IN  IF a > Len(t) THEN 0
        ELSE IF t[a] = NUM THEN a + 1
        ELSE IF t[a] = LB
             THEN LET b == SkipWs(t, a + 1)
                  IN  IF b <= Len(t) /\ t[b] = RB THEN b + 1 ELSE PMembers(t, b)
             ELSE 0

\* the index after the closing brace of the member list that starts at i, or 0
PMembers(t, i) ==
    LET a == SkipWs(t, i)
    IN  IF a > Len(t) THEN 0
        ELSE LET after == IF t[a] = DATA THEN a + 1
                          ELSE IF t[a] \in {LAYK, KEY} THEN PValue(t, a + 1)
                          ELSE 0
             IN  IF after = 0 THEN 0
                 ELSE LET c == SkipWs(t, after)
                      IN  IF c > Len(t) THEN 0
                          ELSE IF t[c] = RB THEN c + 1
                          ELSE IF t[c] = COMMA THEN PMembers(t, c + 1)
                          ELSE 0

\* json.loads(t) does not raise json.JSONDecodeError
JsonValid(t) ==
    LET e == PValue(t, 1)
    IN  e # 0 /\ SkipWs(t, e) > Len(t)

\* the parsed value: the text without its insignificant whitespace
Parsed(t) == SelectSeq(t, LAMBDA x : ~IsWs(x))

Depth(t, i) ==
    Cardinality({j \in 1..(i - 1) : t[j] = LB}) - Cardinality({j \in 1..(i - 1) : t[j] = RB})

\* isinstance(parsed, dict) and "data" in parsed and "layout" in parsed
IsFigure(t) ==
    LET f == SkipWs(t, 1)
    IN  /\ f <= Len(t) /\ t[f] = LB
        /\ \E i \in 1..Len(t) : t[i] = DATA /\ Depth(t, i) = 1
        /\ \E i \in 1..Len(t) : t[i] = LAYK /\ Depth(t, i) = 1

(***************************************************************************)
(* detect_visualization_data                                               *)
(***************************************************************************)
NoViz == <<>>

\* the result (cleaned_content, visualization_data) of a call, or the exception
\* it lets escape; rule and span say which rule produced it and from where
Found(s, rule, keep, viz, span) ==
    [status |-> "ok", rule |-> rule, keep |-> keep, viz |-> viz, span |-> span]

NotFound(s) == Found(s, "none", Ident(s), NoViz, {})

Raised == [status |-> "raise", rule |-> "file", keep |-> <<>>, viz |-> NoViz, span |-> {}]

\* the indices ReplaceIdx removes
Removed(s, m) == (1..Len(s)) \ {ReplaceIdx(s, m, 1)[i] : i \in 1..Len(ReplaceIdx(s, m, 1))}

\* the strip without the replace
CleanedIdx_no_replace(s, m) == StripIdx(s, Ident(s))

\* content.replace(match, "").strip()
CleanedIdx(s, m) == StripIdx(s, ReplaceIdx(s, m, 1))

RECURSIVE RefScan(_, _)
\* re.findall(r'output/[^\s]+\.json', content): a match starts at a reference and,
\* [^\s]+ being greedy, runs to the last ".json" before the next whitespace
RefScan(s, p) ==
    IF p > Len(s) THEN <<>>
    ELSE IF ~IsRef(s[p]) THEN RefScan(s, p + 1)
    ELSE LET ws   == {j \in p..Len(s) : HasWs(s[j])}
             stop == IF ws = {} THEN Len(s) ELSE Min(ws) - 1
             last == Max({j \in p..stop : IsRef(s[j])})
         IN  <<[from |-> p, to |-> last]>> \o RefScan(s, last + 1)

\* the file named by a match: a single reference names its file, a longer run
\* of text names no file of the output directory
PathKind(s, m) == IF m.from = m.to THEN FileKind(s[m.from]) ELSE "missing"

RECURSIVE FileLoop(_, _, _)
\* the loop over the file references, lines 37 to 48
FileLoop(s, ms, k) ==
    IF k > Len(ms) THEN NotFound(s)
    ELSE LET kind == PathKind(s, ms[k])
             path == SubSeq(s, ms[k].from, ms[k].to)
         IN  CASE kind = "payload"     -> Found(s, "file", CleanedIdx(s, path),
                                                <<"file", s[ms[k].from]>>, Removed(s, path))
               [] kind = "undecodable" -> Raised
               [] OTHER                -> FileLoop(s, ms, k + 1)

FileRule(s) ==
    IF \E i \in 1..Len(s) : IsRef(s[i])
    THEN FileLoop(s, RefScan(s, 1), 1)
    ELSE NotFound(s)

NextBrace(s, p) ==
    LET bs == {j \in p..Len(s) : IsBrace(s[j])}
    IN  IF bs = {} THEN 0 ELSE Min(bs)

\* json_pattern matched at i: the index of the last token of the match, or 0.
\* [^{}]* crosses no brace, so the braces of a match are s[i], the next three.
MatchAt(s, i) ==
    IF s[i] # LB THEN 0
    ELSE LET j == NextBrace(s, i + 1)
         IN  IF j = 0 \/ s[j] # LB THEN 0
             ELSE IF ~\E p \in (i + 1)..(j - 1), q \in (i + 1)..(j - 1) :
                         /\ p < q /\ s[p] = DATA /\ s[q] = LAYK
                         /\ \A r \in (q + 1)..(j - 1) : IsWs(s[r])
                  THEN 0
                  ELSE LET k == NextBrace(s, j + 1)
                       IN  IF k = 0 \/ s[k] # RB THEN 0
                           ELSE LET m == NextBrace(s, k + 1)
                                IN  IF m = 0 \/ s[m] # RB THEN 0 ELSE m

RECURSIVE EmbScan(_, _)
\* re.findall(json_pattern, content, re.DOTALL)
EmbScan(s, p) ==
    IF p > Len(s) THEN <<>>
    ELSE IF MatchAt(s, p) # 0
         THEN <<[from |-> p, to |-> MatchAt(s, p)]>> \o EmbScan(s, MatchAt(s, p) + 1)
         ELSE EmbScan(s, p + 1)

RECURSIVE EmbLoop(_, _, _)
\* the loop over the matches, lines 57 to 66
EmbLoop(s, ms, k) ==
    IF k > Len(ms) THEN NotFound(s)
    ELSE LET m == SubSeq(s, ms[k].from, ms[k].to)
         IN  IF JsonValid(m) /\ IsFigure(m)
             THEN Found(s, "embedded", CleanedIdx(s, m), Parsed(m), Removed(s, m))
             ELSE EmbLoop(s, ms, k + 1)

EmbeddedRule(s) == EmbLoop(s, EmbScan(s, 1), 1)

\* lines 69 to 75: the whole stripped content is one figure
VerbatimRule(s) ==
    LET k  == StripIdx(s, Ident(s))
        st == Pick(s, k)
    IN  IF /\ Len(st) >= 2 /\ st[1] = LB /\ st[2] = DATA
           /\ \E i \in 1..Len(s) : s[i] = LAYK
           /\ JsonValid(st) /\ IsFigure(st)
        THEN Found(s, "verbatim", <<>>, Parsed(st), {k[i] : i \in 1..Len(k)})
        ELSE NotFound(s)

\* the rules in the order of the code: file, embedded, verbatim
detect_visualization_data(s) ==
    LET f == FileRule(s)
        e == EmbeddedRule(s)
    IN  IF f.status = "raise" \/ f.rule # "none" THEN f
        ELSE IF e.rule # "none" THEN e
        ELSE VerbatimRule(s)

\* cleaned_content
Cleaned(s, r) == Pick(s, r.keep)

(***************************************************************************)
(* State                                                                   *)
(***************************************************************************)
VARIABLES
    \* the turn loop (scout/graph.py), per thread identifier
    store,      \* MemorySaver: the checkpointed messages of each thread
    phase,      \* where the graph of the thread's turn stands
    turnNo,     \* how many turns the thread has started
    failed,     \* the current turn ended with an exception of the model call
    before,     \* the thread's messages when its current turn started
    rounds,     \* Generating steps of the current turn that requested tools
    inflight,   \* tool calls of the current Invoking phase still running
    outcome,    \* call identifier -> status, for the finished tool calls
    nextId,     \* the next fresh message or call identifier of each thread
    seen,       \* the messages given to the model in the thread's last Generating step
    anon,       \* the thread's current turn came from a request without thread_id
    \* the chat endpoint (api_server.py: chat_endpoint, generate_response)
    request,    \* the thread_id of the request, NoThreadId if it has none
    text,       \* the text the model streams in this turn
    pos,        \* how many of its tokens have been streamed
    nInc,       \* increments the agent stream has produced
    serial,     \* tokens handed to the endpoint so far
    queue,      \* strings stream_graph_response has yet to yield for its increment
    acc,        \* accumulated_content
    out,        \* the records sent to the caller
    pc,         \* "new", "streaming" or "closed"
    lastScan,   \* the last buffer given to detect_visualization_data
    handed,     \* the tokens of the strings the loop has taken, in order
    \* the classifier alone (scout/client.py: stream_graph_response)
    fed,        \* the increments consumed
    events,     \* the strings yielded, each with the branch that yielded it
    \* detect_visualization_data alone
    buf,        \* the content argument
    res,        \* the result of the call, or "pending"
    \* the visualization tool (my_mcp/local_servers/datalysis_mcp.py)
    engine,     \* session.engine is set
    files,      \* figure name -> the call that last wrote output/<name>.json, 0 if none
    vizCalls    \* the calls of datalysis_generate_visualization so far, with results

turnVars == <<store, phase, turnNo, failed, before, rounds, inflight, outcome, nextId,
              seen, anon>>
chatVars == <<request, text, pos, nInc, serial, queue, acc, out, pc, lastScan, handed>>
clsVars  == <<fed, events>>
detVars  == <<buf, res>>
vizVars  == <<engine, files, vizCalls>>
vars     == <<turnVars, chatVars, clsVars, detVars, vizVars>>

(***************************************************************************)
(* Bounds                                                                  *)
(***************************************************************************)
MaxTurns     == 2   \* turns started, over all threads
MaxToolCalls == 2   \* tool calls requested by the model, over all turns
MaxIncs   == 3   \* increments of the agent stream in one chat response
MaxFed    == 3   \* increments fed to the classifier alone
MaxCalls  == 3   \* calls of the visualization tool

Threads == {"thread-a", "thread-b"}

\* message and call identifiers are unique over all threads: each thread draws
\* its identifiers from a range of its own
IdBase(t) == IF t = "thread-a" THEN 1 ELSE 101

(***************************************************************************)
(* The turn loop: ScoutAgent._build_graph                                  *)
(***************************************************************************)
Last(s) == s[Len(s)]

HumanMessage(id) ==
    [type |-> "human", id |-> id, calls |-> <<>>, call_id |-> 0, status |-> ""]

AIMessage(id, calls) ==
    [type |-> "ai", id |-> id, calls |-> calls, call_id |-> 0, status |-> ""]

ToolMessage(id, call, status) ==
    [type |-> "tool", id |-> id, calls |-> <<>>, call_id |-> call, status |-> status]

\* the tools bound to the agent, and a name the model may invent
ToolNames    == {"datalysis_query_db"}
UnknownTool  == "no_such_tool"

add_messages_append(left, right) == left \o right

RECURSIVE add_messages(_, _)
\* the reducer of ScoutState.messages: a message whose id is already in the
\* list replaces it in place, any other is appended
add_messages(left, right) ==
    IF right = <<>> THEN left
    ELSE LET m   == Head(right)
             hit == {i \in 1..Len(left) : left[i].id = m.id}
         IN  add_messages(IF hit # {} THEN [left EXCEPT ![Min(hit)] = m]
                          ELSE Append(left, m),
                          Tail(right))

\* a node that returns copies of the messages, under identifiers of their own
scout_node_new_ids(messages, response) ==
    [i \in 1..Len(messages) |-> [messages[i] EXCEPT !.id = @ + 50]] \o <<response>>

\* what scout_node returns: the state with the response appended to the messages
scout_node(messages, response) == messages \o <<response>>

router_always_tools(messages) == "tools"

\* the conditional edge after the chatbot node
router(messages) ==
    IF Last(messages).calls = <<>> THEN "END" ELSE "tools"

RECURSIVE CountCalls(_)
CountCalls(messages) ==
    IF messages = <<>> THEN 0
    ELSE Len(Head(messages).calls) + CountCalls(Tail(messages))

\* the names of the tool calls a response may carry, within the bound
CallNames(used) ==
    UNION {[1..n -> ToolNames \cup {UnknownTool}] : n \in 0..(MaxToolCalls - used)}

MakeCalls(id, names) == [i \in 1..Len(names) |-> [id |-> id + i, name |-> names[i]]]

ToolNode_first_only(calls, done, id) ==
    <<ToolMessage(id, calls[1].id, done[calls[1].id])>>

\* ToolNode(self.tools): one ToolMessage per tool call of the last message, in
\* the order of the calls, each with the identifier of its call
ToolNode(calls, done, id) ==
    [i \in 1..Len(calls) |-> ToolMessage(id + i - 1, calls[i].id, done[calls[i].id])]

\* a request without thread_id, and the identifiers no request has used yet
NoThreadId == ""
FreshIds == {u \in Threads : turnNo[u] = 0}

\* an endpoint that gives every request a new identifier
thread_id_always_new(req) == FreshIds

\* line 159 of api_server.py: the given thread_id, or a new uuid4
thread_id(req) == IF req # NoThreadId THEN {req} ELSE FreshIds

\* a checkpointer that keeps one history for all thread identifiers
Checkpoint_one_history(st, t) == st[CHOOSE u \in Threads : st[u] # <<>> \/ u = t]

\* MemorySaver: the checkpoint of the thread named by config["configurable"]
Checkpoint(st, t) == st[t]

TurnInit ==
    /\ store    = [t \in Threads |-> <<>>]
    /\ phase    = [t \in Threads |-> "Idle"]
    /\ turnNo   = [t \in Threads |-> 0]
    /\ failed   = [t \in Threads |-> FALSE]
    /\ before   = [t \in Threads |-> <<>>]
    /\ rounds   = [t \in Threads |-> 0]
    /\ inflight = [t \in Threads |-> {}]
    /\ outcome  = [t \in Threads |-> <<>>]
    /\ nextId   = [t \in Threads |-> IdBase(t)]
    /\ seen     = [t \in Threads |-> <<>>]
    /\ anon     = [t \in Threads |-> FALSE]

RECURSIVE SumOver(_, _)
SumOver(f, S) ==
    IF S = {} THEN 0
    ELSE LET x == CHOOSE y \in S : TRUE IN f[x] + SumOver(f, S \ {x})

TurnsStarted == SumOver(turnNo, Threads)

TurnFrame == UNCHANGED <<chatVars, clsVars, detVars, vizVars>>

\* graph.astream(input, config) with a new user message: the input is merged
\* into the thread's checkpoint and the graph starts at the chatbot node
StartTurn(t) ==
    /\ phase[t] \in {"Idle", "Done"} \/ failed[t]
    /\ TurnsStarted < MaxTurns
    /\ \E req \in Threads \cup {NoThreadId} :
          /\ t \in thread_id(req)
          /\ anon' = [anon EXCEPT ![t] = (req = NoThreadId)]
    /\ store'    = [store EXCEPT ![t] = add_messages(Checkpoint(store, t),
                                                     <<HumanMessage(nextId[t])>>)]
    /\ before'   = [before EXCEPT ![t] = Checkpoint(store, t)]
    /\ seen'     = [seen EXCEPT ![t] = <<>>]
    /\ phase'    = [phase EXCEPT ![t] = "Generating"]
    /\ turnNo'   = [turnNo EXCEPT ![t] = @ + 1]
    /\ failed'   = [failed EXCEPT ![t] = FALSE]
    /\ rounds'   = [rounds EXCEPT ![t] = 0]
    /\ inflight' = [inflight EXCEPT ![t] = {}]
    /\ outcome'  = [outcome EXCEPT ![t] = <<>>]
    /\ nextId'   = [nextId EXCEPT ![t] = @ + 1]
    /\ TurnFrame

CallsRequested == SumOver([t \in Threads |-> CountCalls(store[t])], Threads)

Running(t) == phase[t] \notin {"Idle", "Done"} /\ ~failed[t]

\* the chatbot node: the model answers, with or without tool calls
Generate(t) ==
    /\ Running(t) /\ phase[t] = "Generating"
    /\ \E names \in CallNames(CallsRequested) :
          /\ LET response == AIMessage(nextId[t], MakeCalls(nextId[t], names))
                 messages == Checkpoint(store, t)
             IN  /\ store' = [store EXCEPT ![t] =
                                 add_messages(messages, scout_node(messages, response))]
                 /\ seen' = [seen EXCEPT ![t] = messages]
          /\ rounds' = [rounds EXCEPT ![t] = IF names # <<>> THEN @ + 1 ELSE @]
          /\ nextId' = [nextId EXCEPT ![t] = @ + 1 + Len(names)]
    /\ phase' = [phase EXCEPT ![t] = "Routing"]
    /\ UNCHANGED <<turnNo, failed, before, inflight, outcome, anon>>
    /\ TurnFrame

\* self.llm.invoke raises: the exception ends the turn, the checkpoint stays
GenerateFails(t) ==
    /\ Running(t) /\ phase[t] = "Generating"
    /\ failed' = [failed EXCEPT ![t] = TRUE]
    /\ UNCHANGED <<store, phase, turnNo, before, rounds, inflight, outcome, nextId, seen, anon>>
    /\ TurnFrame

\* a conditional edge that leads nowhere when the router returns END
Route_stalls(t) ==
    /\ Running(t) /\ phase[t] = "Routing" /\ router(store[t]) # "END"
    /\ phase' = [phase EXCEPT ![t] = "Invoking"]
    /\ inflight' = [inflight EXCEPT ![t] =
                       {Last(store[t]).calls[i].id : i \in 1..Len(Last(store[t]).calls)}]
    /\ outcome' = [outcome EXCEPT ![t] = <<>>]
    /\ UNCHANGED <<store, turnNo, failed, before, rounds, nextId, seen, anon>>
    /\ TurnFrame

\* the conditional edge: END ends the turn, "tools" starts the tool calls
Route(t) ==
    /\ Running(t) /\ phase[t] = "Routing"
    /\ phase' = [phase EXCEPT ![t] = IF router(store[t]) = "END" THEN "Done" ELSE "Invoking"]
    /\ inflight' = [inflight EXCEPT ![t] =
                       IF router(store[t]) = "END" THEN {}
                       ELSE {Last(store[t]).calls[i].id : i \in 1..Len(Last(store[t]).calls)}]
    /\ outcome' = [outcome EXCEPT ![t] = <<>>]
    /\ UNCHANGED <<store, turnNo, failed, before, rounds, nextId, seen, anon>>
    /\ TurnFrame

CallName(t, c) ==
    LET calls == Last(store[t]).calls
    IN  calls[CHOOSE i \in 1..Len(calls) : calls[i].id = c].name

\* a tools node that lets the error of a tool escape: the turn ends with it
ToolReturns_raises(t) ==
    /\ Running(t) /\ phase[t] = "Invoking"
    /\ \E c \in inflight[t], st \in {"success", "error"} :
          /\ CallName(t, c) \notin ToolNames => st = "error"
          /\ outcome' = [outcome EXCEPT ![t] = [d \in DOMAIN @ \cup {c} |->
                                                  IF d = c THEN st ELSE @[d]]]
          /\ inflight' = [inflight EXCEPT ![t] = @ \ {c}]
          /\ failed' = [failed EXCEPT ![t] = (st = "error")]
    /\ UNCHANGED <<store, phase, turnNo, before, rounds, nextId, seen, anon>>
    /\ TurnFrame

\* one tool call of the batch finishes: an unregistered name and a failing tool
\* both give an error result, which the tool node turns into a message
ToolReturns(t) ==
    /\ Running(t) /\ phase[t] = "Invoking"
    /\ \E c \in inflight[t], st \in {"success", "error"} :
          /\ CallName(t, c) \notin ToolNames => st = "error"
          /\ outcome' = [outcome EXCEPT ![t] = [d \in DOMAIN @ \cup {c} |->
                                                  IF d = c THEN st ELSE @[d]]]
          /\ inflight' = [inflight EXCEPT ![t] = @ \ {c}]
    /\ UNCHANGED <<store, phase, turnNo, failed, before, rounds, nextId, seen, anon>>
    /\ TurnFrame

\* the tools node returns its messages; the edge leads back to the chatbot
InvokeDone(t) ==
    /\ Running(t) /\ phase[t] = "Invoking" /\ inflight[t] = {}
    /\ LET calls == Last(store[t]).calls
       IN  /\ store' = [store EXCEPT ![t] = add_messages(@, ToolNode(calls, outcome[t], nextId[t]))]
           /\ nextId' = [nextId EXCEPT ![t] = @ + Len(calls)]
    /\ phase' = [phase EXCEPT ![t] = "Generating"]
    /\ outcome' = [outcome EXCEPT ![t] = <<>>]
    /\ UNCHANGED <<turnNo, failed, before, rounds, inflight, seen, anon>>
    /\ TurnFrame

(***************************************************************************)
(* The classifier: stream_graph_response                                   *)
(***************************************************************************)
NoName == ""

\* one (message_chunk, metadata) pair of graph.astream(stream_mode="messages")
Increment(ai, finish, tcc, shape, str, blocks) ==
    [ai |-> ai, finish |-> finish, tcc |-> tcc, shape |-> shape, str |-> str,
     blocks |-> blocks]

ToolChunk(call, name, args) == [call |-> call, name |-> name, args |-> args]

Block(type, txt) == [type |-> type, text |-> txt]

\* the text of a block {"type": "text", "text": None}: a value that is no string
NONE   == "None"
NotStr == <<NONE>>

\* a yielded string s; kind and call say which branch yielded it, for which call
Event(kind, s, call) == [kind |-> kind, s |-> s, call |-> call]

\* lines 37 to 40
BoundaryPart(inc) ==
    IF inc.finish = "tool_calls" THEN <<Event("boundary", <<NL>>, 0)>> ELSE <<>>

\* lines 43 to 51: the first tool call chunk of the increment, and no other
ToolPart(inc) ==
    LET c == inc.tcc[1]
    IN  (IF c.name # NoName
         THEN <<Event("start", <<NL, MARK, SP, c.name, SP, GT, NL>>, c.call)>>
         ELSE <<>>)
        \o (IF c.args # <<>> THEN <<Event("arg", c.args, c.call)>> ELSE <<>>)

RECURSIVE BlockTexts(_)
\* lines 57 to 59: one string per block of type text
BlockTexts(blocks) ==
    IF blocks = <<>> THEN <<>>
    ELSE (IF Head(blocks).type = "text"
          THEN (IF Head(blocks).text = NotStr
                THEN <<Event("nonstring", <<>>, 0)>>
                ELSE <<Event("text", Head(blocks).text, 0)>>)
          ELSE <<>>)
         \o BlockTexts(Tail(blocks))

\* lines 54 to 65
TextPart(inc) ==
    CASE inc.shape = "list" -> BlockTexts(inc.blocks)
      [] inc.shape = "str"  -> <<Event("text", inc.str, 0)>>
      [] OTHER              -> <<Event("text", <<RAW>>, 0)>>

\* a classifier that yields the paragraph break after the rest of the increment
Classify_boundary_last(inc) ==
    IF ~inc.ai THEN <<>>
    ELSE (IF inc.tcc # <<>> THEN ToolPart(inc) ELSE TextPart(inc)) \o BoundaryPart(inc)

\* the strings one increment makes stream_graph_response yield, in order
Classify(inc) ==
    IF ~inc.ai THEN <<>>
    ELSE BoundaryPart(inc) \o (IF inc.tcc # <<>> THEN ToolPart(inc) ELSE TextPart(inc))

(***************************************************************************)
(* The chat endpoint: generate_response                                    *)
(***************************************************************************)
\* a token handed to the endpoint: id numbers it, kind is its event's kind
Toks(c) == [i \in 1..Len(c) |-> c[i].tok]
Ids(c)  == {c[i].id : i \in 1..Len(c)}

Tagged(ev, from) ==
    [i \in 1..Len(ev.s) |-> [tok |-> ev.s[i], id |-> from + i, kind |-> ev.kind]]

\* one record of the response stream ("data: {...}")
Record(type, body, viz, span) ==
    [type |-> type, body |-> body, viz |-> viz, span |-> span]

NoScan == [buf |-> <<>>, at |-> 0, to |-> 0, found |-> FALSE, n |-> 0]

\* the body of the loop, lines 184 to 218, for one response_chunk: the new
\* accumulated_content, the records it yields, and whether it raised
Step(a, recs, status, found) ==
    [acc |-> a, recs |-> recs, status |-> status, found |-> found]

ToolCallBranch(a, chunk, mi, gts) ==
    LET after == {j \in gts : j > mi}
    IN  IF after # {} /\ Min(after) > mi + 1
        THEN LET g         == Min(after)
                 name      == Pick(chunk, StripIdx(Toks(chunk), [i \in 1..(g - mi - 1) |-> mi + i]))
                 remaining == SubSeq(chunk, g + 1, Len(chunk))
             IN  Step(IF StripIdx(Toks(remaining), Ident(remaining)) # <<>>
                      THEN a \o remaining ELSE a,
                      <<Record("tool_call", name, NoViz, {})>>, "ok", FALSE)
        ELSE Step(a \o chunk, <<>>, "ok", FALSE)

\* the branch of lines 199 to 218 without the reset of line 215
ContentBranch_keeps_buffer(acc1, chunk, r) ==
    IF r.status = "raise" THEN Step(acc1, <<>>, "UnicodeDecodeError", FALSE)
    ELSE IF r.viz # NoViz
    THEN LET cleaned == Pick(acc1, r.keep)
         IN  Step(acc1,
                  (IF StripIdx(Toks(cleaned), Ident(cleaned)) # <<>>
                   THEN <<Record("content", cleaned, NoViz, {})>> ELSE <<>>)
                  \o <<Record("visualization", <<>>, r.viz, {acc1[i].id : i \in r.span})>>,
                  "ok", TRUE)
    ELSE Step(acc1, <<Record("content", chunk, NoViz, {})>>, "ok", FALSE)

\* lines 199 to 218: response_chunk was added to accumulated_content (acc1) and
\* r is what detect_visualization_data returned for it
ContentBranch(acc1, chunk, r) ==
    IF r.status = "raise" THEN Step(acc1, <<>>, "UnicodeDecodeError", FALSE)
    ELSE IF r.viz # NoViz
    THEN LET cleaned == Pick(acc1, r.keep)
         IN  Step(<<>>,
                  (IF StripIdx(Toks(cleaned), Ident(cleaned)) # <<>>
                   THEN <<Record("content", cleaned, NoViz, {})>> ELSE <<>>)
                  \o <<Record("visualization", <<>>, r.viz, {acc1[i].id : i \in r.span})>>,
                  "ok", TRUE)
    ELSE Step(acc1, <<Record("content", chunk, NoViz, {})>>, "ok", FALSE)

LoopBody(a, chunk) ==
    LET marks == {i \in 1..Len(chunk) : chunk[i].tok = MARK}
        gts   == {i \in 1..Len(chunk) : chunk[i].tok = GT}
    IN  IF marks # {} /\ gts # {}
        THEN ToolCallBranch(a, chunk, Min(marks), gts)
        ELSE ContentBranch(a \o chunk, chunk, detect_visualization_data(Toks(a \o chunk)))

\* whether the chunk takes the branch that calls detect_visualization_data
Scanned(chunk) ==
    ~(/\ \E i \in 1..Len(chunk) : chunk[i].tok = MARK
      /\ \E i \in 1..Len(chunk) : chunk[i].tok = GT)

\* {"data": [], "layout": {...}} with the given text inside the layout object
Figure(layout) == <<LB, DATA, COMMA, LAYK, LB>> \o layout \o <<RB, RB>>

\* the model texts of the chat turns
ChatTexts ==
    { <<W, SP, W>>,
      Figure(<<>>),
      <<W, SP>> \o Figure(<<>>) \o <<SP, W>>,
      Figure(<<KEY, LB, RB>>),
      Figure(<<KEY>> \o Figure(<<>>)),
      <<W, SP, REFOK, SP, W>>,
      <<REFGONE, SP>> \o Figure(<<>>),
      <<W, REFBIN>>,
      <<W, SP, MARK, SP, NAME, SP, GT, SP, W>>,
      <<W, MARK, GT, W>> }

ChatIdle ==
    /\ request = NoThreadId /\ text = <<>> /\ pos = 0 /\ nInc = 0 /\ serial = 0 /\ queue = <<>>
    /\ acc = <<>> /\ out = <<>> /\ pc = "off" /\ lastScan = NoScan /\ handed = <<>>

ChatInit ==
    /\ request \in {"thread-a", NoThreadId}
    /\ text \in ChatTexts
    /\ pos = 0 /\ nInc = 0 /\ serial = 0 /\ queue = <<>>
    /\ acc = <<>> /\ out = <<>> /\ pc = "new" /\ lastScan = NoScan /\ handed = <<>>

ChatFrame == UNCHANGED <<turnVars, clsVars, detVars, vizVars>>

\* line 172: the first record announces the thread identifier
ChatOpen ==
    /\ pc = "new"
    /\ \E tid \in thread_id(request) :
          out' = Append(out, Record("thread_id", <<tid>>, NoViz, {}))
    /\ pc' = "streaming"
    /\ UNCHANGED <<request, text, pos, nInc, serial, queue, acc, lastScan, handed>>
    /\ ChatFrame

\* stream_graph_response takes the next increment of graph.astream and has the
\* strings it yields for it ready
Pull(inc) ==
    /\ pc = "streaming" /\ queue = <<>> /\ nInc < MaxIncs
    /\ queue' = Classify(inc)
    /\ nInc' = nInc + 1
    /\ UNCHANGED <<request, text, serial, acc, out, pc, lastScan, handed>>
    /\ ChatFrame

\* the model streams the next piece of its text, as a string or as blocks
ChatText ==
    \E n \in 0..(Len(text) - pos) :
        /\ \E inc \in {Increment(TRUE, "", <<>>, "str", SubSeq(text, pos + 1, pos + n), <<>>),
                       Increment(TRUE, "", <<>>, "list", <<>>,
                                 <<Block("tool_use", <<>>),
                                   Block("text", SubSeq(text, pos + 1, pos + n))>>)} :
              Pull(inc)
        /\ pos' = pos + n

\* the model streams a piece of a tool call, or ends a batch of tool calls
ChatTool ==
    /\ \E inc \in {Increment(TRUE, "", <<ToolChunk(1, NAME, <<>>)>>, "str", <<>>, <<>>),
                   Increment(TRUE, "", <<ToolChunk(1, NoName, <<LB, KEY, NUM, RB>>)>>,
                             "str", <<>>, <<>>),
                   Increment(TRUE, "", <<ToolChunk(1, NoName, <<REFOK>>)>>,
                             "str", <<>>, <<>>),
                   Increment(TRUE, "tool_calls", <<>>, "str", <<>>, <<>>)} :
          Pull(inc)
    /\ pos' = pos

\* the tools node streams a ToolMessage, which is no AIMessageChunk
ChatOther ==
    /\ Pull(Increment(FALSE, "", <<>>, "str", <<W>>, <<>>))
    /\ pos' = pos

\* the model streams an increment of an unusual shape: a content that is neither
\* a string nor a list, blocks that are no text, a text block without a string
ChatOddShape ==
    /\ \E inc \in {Increment(TRUE, "", <<>>, "other", <<>>, <<>>),
                   Increment(TRUE, "", <<>>, "list", <<>>, <<Block("image", <<>>)>>),
                   Increment(TRUE, "", <<>>, "list", <<>>, <<Block("text", NotStr)>>)} :
          Pull(inc)
    /\ pos' = pos

\* an exception that leaves generate_response without a record
ExceptHandler_reraise(recs, e) == recs

\* the handler of lines 223 to 226: the error record, which names the exception
\* e, follows what was sent
ExceptHandler(recs, e) == Append(recs, Record("error", <<e>>, NoViz, {}))

\* one iteration of the loop of generate_response, for the next string yielded;
\* a chunk that is no string makes the test of line 185 raise TypeError, and
\* that and an exception of detect_visualization_data are caught at line 223
ChatChunk ==
    /\ pc = "streaming" /\ queue # <<>>
    /\ \E chunk \in {Tagged(Head(queue), serial)} :
       \E r \in {IF Head(queue).kind = "nonstring"
                  THEN Step(acc, <<>>, "TypeError", FALSE)
                  ELSE LoopBody(acc, chunk)} :
          /\ acc' = r.acc
          /\ out' = IF r.status # "ok"
                    THEN ExceptHandler(out, r.status)
                    ELSE out \o r.recs
          /\ pc' = IF r.status # "ok" THEN "closed" ELSE pc
          /\ lastScan' = IF Scanned(chunk) /\ Head(queue).kind # "nonstring"
                         THEN [buf |-> acc \o chunk, at |-> Len(out),
                               to |-> Len(out) + Len(r.recs), found |-> r.found,
                               n |-> lastScan.n + 1]
                         ELSE lastScan
          /\ serial' = serial + Len(chunk)
          /\ handed' = handed \o chunk
    /\ queue' = Tail(queue)
    /\ UNCHANGED <<request, text, pos, nInc>>
    /\ ChatFrame

\* the agent stream raises (the model call, the graph): line 223
ChatRaise ==
    /\ pc = "streaming" /\ queue = <<>>
    /\ out' = ExceptHandler(out, "Exception")
    /\ pc' = "closed"
    /\ UNCHANGED <<request, text, pos, nInc, serial, queue, acc, lastScan, handed>>
    /\ ChatFrame

\* the agent stream ends: line 221
ChatEnd ==
    /\ pc = "streaming" /\ queue = <<>> /\ pos = Len(text)
    /\ out' = Append(out, Record("complete", <<>>, NoViz, {}))
    /\ pc' = "closed"
    /\ UNCHANGED <<request, text, pos, nInc, serial, queue, acc, lastScan, handed>>
    /\ ChatFrame

(***************************************************************************)
(* The classifier alone                                                    *)
(***************************************************************************)
ClsIncrements ==
    { Increment(TRUE, "", <<>>, "str", <<W>>, <<>>),
      Increment(TRUE, "", <<>>, "str", <<>>, <<>>),
      Increment(TRUE, "", <<>>, "list", <<>>,
                <<Block("text", <<W>>), Block("tool_use", <<>>), Block("text", <<NUM>>)>>),
      Increment(TRUE, "", <<>>, "other", <<>>, <<>>),
      Increment(TRUE, "", <<>>, "list", <<>>, <<Block("text", NotStr), Block("text", <<W>>)>>),
      Increment(TRUE, "tool_calls", <<ToolChunk(1, NoName, <<KEY>>)>>, "str", <<>>, <<>>),
      Increment(TRUE, "tool_calls", <<>>, "str", <<W>>, <<>>),
      Increment(TRUE, "", <<ToolChunk(1, NAME, <<>>)>>, "str", <<>>, <<>>),
      Increment(TRUE, "", <<ToolChunk(1, NoName, <<KEY>>)>>, "str", <<>>, <<>>),
      Increment(TRUE, "", <<ToolChunk(1, NAME, <<KEY>>)>>, "str", <<>>, <<>>),
      Increment(TRUE, "", <<ToolChunk(2, NAME, <<>>)>>, "str", <<>>, <<>>),
      Increment(TRUE, "", <<ToolChunk(2, NoName, <<NUM>>)>>, "str", <<>>, <<>>),
      Increment(TRUE, "", <<ToolChunk(1, NoName, <<KEY>>), ToolChunk(2, NAME, <<>>)>>,
                "str", <<>>, <<>>),
      Increment(TRUE, "", <<ToolChunk(1, NAME, <<>>)>>, "str", <<W>>, <<>>),
      Increment(TRUE, "tool_calls", <<>>, "str", <<>>, <<>>),
      Increment(TRUE, "stop", <<>>, "str", <<W>>, <<>>),
      Increment(FALSE, "", <<>>, "str", <<W>>, <<>>) }

ClsIdle == fed = <<>> /\ events = <<>>

ClsInit == fed = <<>> /\ events = <<>>

\* one iteration of the loop of stream_graph_response
ClsFeed ==
    /\ Len(fed) < MaxFed
    /\ \E inc \in ClsIncrements :
          /\ fed' = Append(fed, inc)
          /\ events' = events \o Classify(inc)
    /\ UNCHANGED <<turnVars, chatVars, detVars, vizVars>>

(***************************************************************************)
(* detect_visualization_data alone                                         *)
(***************************************************************************)
Affixes == {<<>>, <<SP>>, <<W, SP>>, <<SP, W>>}

Cores ==
    { <<>>,
      Figure(<<>>),
      Figure(<<KEY, NUM>>),
      Figure(<<KEY, LB, RB>>),
      Figure(<<KEY>> \o Figure(<<>>)),
      <<LB, DATA, COMMA, LAYK, LB, RB>>,
      <<LB, W, DATA, COMMA, LAYK, LB, RB, RB>>,
      <<LB, LAYK, LB, RB, COMMA, DATA, RB>>,
      <<LB, DATA, COMMA, KEY, LB, LAYK, NUM, RB, RB>>,
      Figure(<<>>) \o <<SP>> \o Figure(<<KEY, NUM>>),
      <<REFOK>>, <<REFGONE>>, <<REFBAD>>, <<REFLIST>>, <<REFBIN>>,
      <<REFOK, COMMA, REFOK>>,
      <<REFGONE, SP>> \o Figure(<<>>),
      <<REFOK, SP>> \o Figure(<<>>),
      <<REFBIN, SP, REFOK>>, <<REFOK, SP, REFBIN>>,
      <<REFBAD, SP, REFLIST, SP, REFOK>>,
      <<REFBAD, SP>> \o Figure(<<>>) }

Buffers == {pre \o core \o post : pre \in Affixes, core \in Cores, post \in Affixes}

Pending == [status |-> "pending", rule |-> "none", keep |-> <<>>, viz |-> NoViz, span |-> {}]

DetIdle == buf = <<>> /\ res = Pending

DetInit == buf \in Buffers /\ res = Pending

\* a call detect_visualization_data(buf)
DetectCall ==
    /\ res = Pending
    /\ res' = detect_visualization_data(buf)
    /\ UNCHANGED buf
    /\ UNCHANGED <<turnVars, chatVars, clsVars, vizVars>>

(***************************************************************************)
(* The visualization tool: DatalysisSession.generate_visualization         *)
(***************************************************************************)
VizNames == {"sales", "users"}

\* what the assembled code does when run by exec: it leaves a figure in fig,
\* it leaves none, it raises an Exception (the query, the plotting code, the
\* serialisation), or it raises SystemExit, which is no Exception
PlotlyCodes == {"fig", "nofig", "raises", "exits"}

NoFiles == [n \in VizNames |-> 0]

VizResult(result, fs) == [result |-> result, files |-> fs]

\* lines 77 to 136, for call number k, with the figure files fs on disk
generate_visualization(eng, fs, k, name, plotly_code) ==
    IF ~eng THEN VizResult("error_no_database", fs)
    ELSE CASE plotly_code = "exits"  -> VizResult("raised", fs)
           [] plotly_code = "raises" -> VizResult("error_executing", fs)
           [] OTHER ->
                LET after == IF plotly_code = "fig" THEN [fs EXCEPT ![name] = k] ELSE fs
                IN  IF after[name] # 0
                    THEN VizResult("success", after)
                    ELSE VizResult("error_failed", after)

VizIdle == engine = FALSE /\ files = NoFiles /\ vizCalls = <<>>

\* the session after construction: the engine is there if SUPABASE_URL is set
VizInit == engine \in BOOLEAN /\ files = NoFiles /\ vizCalls = <<>>

\* one call of the tool datalysis_generate_visualization
VizCall ==
    /\ Len(vizCalls) < MaxCalls
    /\ \E name \in VizNames, plotly_code \in PlotlyCodes :
       \E r \in {generate_visualization(engine, files, Len(vizCalls) + 1, name, plotly_code)} :
          /\ files' = r.files
          /\ vizCalls' = Append(vizCalls, [name |-> name, code |-> plotly_code,
                                           result |-> r.result,
                                           wrote |-> r.files[name] = Len(vizCalls) + 1])
    /\ UNCHANGED engine
    /\ UNCHANGED <<turnVars, chatVars, clsVars, detVars>>

(***************************************************************************)
(* Specifications                                                          *)
(***************************************************************************)
TurnNext ==
    \E t \in Threads :
        \/ StartTurn(t)
        \/ Generate(t)
        \/ GenerateFails(t)
        \/ Route(t)
        \/ ToolReturns(t)
        \/ InvokeDone(t)

Init == TurnInit /\ ChatIdle /\ ClsIdle /\ DetIdle /\ VizIdle

Next == TurnNext

\* the turn loop over the threads of the checkpointer
Spec == Init /\ [][Next]_vars

\* the turn loop with a runtime that runs every step that stays enabled: the
\* conditional edge, the running tools, and the return of the tools node
LiveSpec ==
    /\ Init /\ [][Next]_vars
    /\ \A t \in Threads : WF_vars(Route(t) \/ ToolReturns(t) \/ InvokeDone(t))

TurnIdle ==
    /\ store = [t \in Threads |-> <<>>] /\ phase = [t \in Threads |-> "Idle"]
    /\ turnNo = [t \in Threads |-> 0] /\ failed = [t \in Threads |-> FALSE]
    /\ before = [t \in Threads |-> <<>>] /\ rounds = [t \in Threads |-> 0]
    /\ inflight = [t \in Threads |-> {}] /\ outcome = [t \in Threads |-> <<>>]
    /\ nextId = [t \in Threads |-> IdBase(t)]
    /\ seen = [t \in Threads |-> <<>>] /\ anon = [t \in Threads |-> FALSE]

ChatNext ==
    \/ ChatOpen
    \/ ChatText
    \/ ChatTool
    \/ ChatOther
    \/ ChatOddShape
    \/ ChatChunk
    \/ ChatRaise
    \/ ChatEnd

\* one response of the chat endpoint
ChatSpecInit == ChatInit /\ TurnIdle /\ ClsIdle /\ DetIdle /\ VizIdle

ChatSpec == ChatSpecInit /\ [][ChatNext]_vars

ClsNext == ClsFeed

\* one call of stream_graph_response
ClsSpecInit == ClsInit /\ TurnIdle /\ ChatIdle /\ DetIdle /\ VizIdle

ClsSpec == ClsSpecInit /\ [][ClsNext]_vars

DetNext == DetectCall

\* one call of detect_visualization_data
DetSpecInit == DetInit /\ TurnIdle /\ ChatIdle /\ ClsIdle /\ VizIdle

DetSpec == DetSpecInit /\ [][DetNext]_vars

VizNext == VizCall

\* a session of the visualization tool
VizSpecInit == VizInit /\ TurnIdle /\ ChatIdle /\ ClsIdle /\ DetIdle

VizSpec == VizSpecInit /\ [][VizNext]_vars

(***************************************************************************)
(* Properties of the turn loop (Spec)                                      *)
(***************************************************************************)
\* the messages the current turn of thread t has appended
TurnSuffix(t) == SubSeq(store[t], Len(before[t]) + 1, Len(store[t]))

RECURSIVE RoundsShape(_, _, _)
\* from index i on, s is k rounds (an assistant message with tool calls, then one
\* tool message per call, in order, with the identifier of the call) and then one
\* assistant message without tool calls, which ends s
RoundsShape(s, i, k) ==
    IF i > Len(s) THEN FALSE
    ELSE IF k = 0 THEN i = Len(s) /\ s[i].type = "ai" /\ s[i].calls = <<>>
    ELSE LET n == Len(s[i].calls)
         IN  /\ s[i].type = "ai" /\ n >= 1 /\ i + n < Len(s)
             /\ \A j \in 1..n : s[i + j].type = "tool" /\ s[i + j].call_id = s[i].calls[j].id
             /\ RoundsShape(s, i + n + 1, k - 1)

\* C1: a turn in which the model requested tools in k consecutive Generating
\* steps and then answered without tool calls has appended exactly the user
\* message, k rounds of (assistant tool-call message, one tool result per call
\* with the call's identifier) and the final assistant message, to a history it
\* left as it was; and once the model has answered without tool calls the turn
\* is in Routing or Done, never generating again.
C1_TurnHistory ==
    \A t \in Threads :
        /\ phase[t] = "Done" =>
              /\ SubSeq(store[t], 1, Len(before[t])) = before[t]
              /\ Len(TurnSuffix(t)) >= 2
              /\ TurnSuffix(t)[1].type = "human"
              /\ RoundsShape(TurnSuffix(t), 2, rounds[t])
        /\ (phase[t] # "Idle" /\ Last(store[t]).type = "ai" /\ Last(store[t]).calls = <<>>)
              => phase[t] \in {"Routing", "Done"}

\* a turn with one round of one tool call is done: user, assistant tool call,
\* tool result, assistant text
C1_Witness ==
    \E t \in Threads :
        /\ phase[t] = "Done" /\ rounds[t] = 1 /\ Len(TurnSuffix(t)) = 4
        /\ TurnSuffix(t)[3].call_id = TurnSuffix(t)[2].calls[1].id

\* C2: within a turn the graph only moves Generating -> Routing, Routing -> Done
\* (exactly when the last message, an assistant message, has no tool calls),
\* Routing -> Invoking (exactly when it has some) and Invoking -> Generating;
\* Done is not left by the turn that reached it.
C2_Transitions ==
    [][\A t \in Threads :
         turnNo'[t] = turnNo[t] =>
            /\ phase[t] = "Idle" => phase'[t] = "Idle"
            /\ phase[t] = "Generating" => phase'[t] \in {"Generating", "Routing"}
            /\ phase[t] = "Routing" =>
                  \/ phase'[t] = "Routing"
                  \/ /\ phase'[t] = "Done"
                     /\ Last(store[t]).type = "ai" /\ Last(store[t]).calls = <<>>
                  \/ /\ phase'[t] = "Invoking"
                     /\ Last(store[t]).type = "ai" /\ Last(store[t]).calls # <<>>
            /\ phase[t] = "Invoking" => phase'[t] \in {"Invoking", "Generating"}
            /\ phase[t] = "Done" => phase'[t] = "Done"]_vars

\* a turn has gone through every transition: tools were invoked and it is done
C2_Witness ==
    \E t \in Threads : phase[t] = "Done" /\ rounds[t] >= 1

\* every tool call of h is answered later in h, and every tool message of h
\* answers a call requested earlier in h
Paired(h) ==
    /\ \A i \in 1..Len(h) : \A c \in 1..Len(h[i].calls) :
          \E j \in (i + 1)..Len(h) : h[j].type = "tool" /\ h[j].call_id = h[i].calls[c].id
    /\ \A j \in 1..Len(h) : h[j].type = "tool" =>
          \E i \in 1..(j - 1) : /\ h[i].type = "ai"
                                /\ \E c \in 1..Len(h[i].calls) : h[i].calls[c].id = h[j].call_id

\* C3: when a turn is Done, every tool call in the session's history is followed
\* by a tool result with its identifier, and no tool result is unrequested.
C3_CallsAnswered ==
    \A t \in Threads : phase[t] = "Done" => Paired(store[t])

\* a turn is done whose history holds an assistant message with two tool calls
C3_Witness ==
    \E t \in Threads :
        /\ phase[t] = "Done"
        /\ \E i \in 1..Len(store[t]) : Len(store[t][i].calls) = 2

(***************************************************************************)
(* Properties of the chat endpoint (ChatSpec)                              *)
(***************************************************************************)
Terminal(r) == r.type \in {"complete", "error"}

\* C4: the records of a response end with exactly one terminal record, complete
\* or error, whatever the agent stream did; nothing follows it, and a response
\* that is over never lacks it.
C4_OneTerminal ==
    /\ \A i \in 1..Len(out) : Terminal(out[i]) => i = Len(out) /\ pc = "closed"
    /\ pc = "closed" => Len(out) > 0 /\ Terminal(Last(out))

\* a response that sent content and then ended with an error record
C4_Witness ==
    /\ pc = "closed" /\ Last(out).type = "error"
    /\ \E i \in 1..Len(out) : out[i].type = "content"

\* C5: no token of the source span of an emitted visualization is sent to the
\* caller in a content record of the same response.
C5_SpanNeverSent ==
    \A i \in 1..Len(out), j \in 1..Len(out) :
        (out[i].type = "visualization" /\ out[j].type = "content")
            => Ids(out[j].body) \cap out[i].span = {}

\* C6: every visualization record comes from a span of the streamed text, no
\* token belongs to the spans of two visualization records, and no token of an
\* emitted visualization is left in the buffer that is scanned next.
C6_ArtifactOnce ==
    /\ \A i \in 1..Len(out) :
          out[i].type = "visualization" =>
              /\ out[i].span # {}
              /\ out[i].span \cap Ids(acc) = {}
    /\ \A i \in 1..Len(out), j \in 1..Len(out) :
          (i < j /\ out[i].type = "visualization" /\ out[j].type = "visualization")
              => out[i].span \cap out[j].span = {}

\* after a visualization was emitted the buffer was scanned again, with new text
C6_Witness ==
    /\ acc # <<>> /\ lastScan.buf = acc
    /\ \E i \in 1..Len(out) : out[i].type = "visualization"

\* the buffer is exactly one payload {"data": [...], "layout": {...}}
ExactFigure(t) ==
    /\ Len(t) >= 7
    /\ SubSeq(t, 1, 4) = <<LB, DATA, COMMA, LAYK>> /\ t[5] = LB /\ t[Len(t)] = RB
    /\ PValue(t, 5) = Len(t)
    /\ JsonValid(t)

\* the records the last call of detect_visualization_data made the loop yield
ScanRecords == SubSeq(out, lastScan.at + 1, lastScan.to)

\* C10: when the scanned buffer is exactly one valid payload, the loop yields
\* one visualization record, carrying the parsed payload, and no text.
C10_RoundTrip ==
    (lastScan.n > 0 /\ ExactFigure(Toks(lastScan.buf)))
        => /\ Len(ScanRecords) >= 1
           /\ \A i \in 1..Len(ScanRecords) :
                 \/ /\ ScanRecords[i].type = "visualization"
                    /\ ScanRecords[i].viz = Parsed(Toks(lastScan.buf))
                 \/ /\ ScanRecords[i].type = "content"
                    /\ ScanRecords[i].body = <<>>
           /\ Cardinality({i \in 1..Len(ScanRecords) :
                              ScanRecords[i].type = "visualization"}) = 1

(***************************************************************************)
(* Properties of the classifier (ClsSpec)                                  *)
(***************************************************************************)
RECURSIVE Flat(_)
\* the concatenation of a sequence of texts
Flat(ss) == IF ss = <<>> THEN <<>> ELSE Head(ss) \o Flat(Tail(ss))

\* the text an increment bears: its string, the text blocks of its block list,
\* or the raw representation of a content of another shape
ExtractedText(inc) ==
    IF ~inc.ai THEN <<>>
    ELSE CASE inc.shape = "str"  -> inc.str
           [] inc.shape = "list" ->
                 Flat([i \in 1..Len(inc.blocks) |->
                          IF inc.blocks[i].type = "text" /\ inc.blocks[i].text # NotStr
                          THEN inc.blocks[i].text ELSE <<>>])
           [] OTHER              -> <<RAW>>

TextEvents == SelectSeq(events, LAMBDA e : e.kind = "text")

\* C7: the emitted text fragments, concatenated, are the extracted text of the
\* increments, concatenated in order; no increment's text is dropped.
C7_TextPreserved ==
    Flat([i \in 1..Len(TextEvents) |-> TextEvents[i].s])
        = Flat([i \in 1..Len(fed) |-> ExtractedText(fed[i])])

\* the tool call fragments of the increments, in the order the model streamed them
Fragments == Flat([i \in 1..Len(fed) |-> IF fed[i].ai THEN fed[i].tcc ELSE <<>>])

\* the model streams its calls one after the other, each with its name first
WellFormed ==
    \A i \in 1..Len(Fragments) :
        /\ (\A j \in 1..(i - 1) : Fragments[j].call # Fragments[i].call)
              => Fragments[i].name # NoName
        /\ \A j \in 1..(i - 1) : Fragments[j].call <= Fragments[i].call

EventsOf(kind, c) == {i \in 1..Len(events) : events[i].kind = kind /\ events[i].call = c}

\* C8: for every tool call streamed, the start is emitted exactly once, before
\* every argument fragment of the call, and the argument fragments of two calls
\* are not interleaved.
C8_StartOnce ==
    WellFormed =>
        \A f \in 1..Len(Fragments) :
            LET c == Fragments[f].call
            IN  /\ Cardinality(EventsOf("start", c)) = 1
                /\ \A a \in EventsOf("arg", c) : \E b \in EventsOf("start", c) : b < a
                /\ \A a \in EventsOf("arg", c), b \in EventsOf("arg", c) :
                      \A m \in (a + 1)..(b - 1) :
                          events[m].kind = "arg" => events[m].call = c

(***************************************************************************)
(* Properties of detect_visualization_data (DetSpec)                       *)
(***************************************************************************)
\* the rules in the order file reference, verbatim payload, embedded payload
DetectInStatedOrder(s) ==
    LET f == FileRule(s)
        v == VerbatimRule(s)
    IN  IF f.status = "raise" \/ f.rule # "none" THEN f
        ELSE IF v.rule # "none" THEN v
        ELSE EmbeddedRule(s)

\* C9: the artifact and the residual text returned are those of the first rule
\* that succeeds in the order file reference, verbatim payload, embedded payload.
C9_Precedence ==
    res.status = "ok" =>
        /\ res.viz = DetectInStatedOrder(buf).viz
        /\ Cleaned(buf, res) = Cleaned(buf, DetectInStatedOrder(buf))

\* the matches of file_pattern in the buffer, and the first of them that names
\* a file holding a payload (0 if there is none)
Candidates == RefScan(buf, 1)

FirstPayload ==
    LET ok == {k \in 1..Len(Candidates) : PathKind(buf, Candidates[k]) = "payload"}
    IN  IF ok = {} THEN 0 ELSE Min(ok)

NoEarlierRaise ==
    \A k \in 1..(FirstPayload - 1) : PathKind(buf, Candidates[k]) # "undecodable"

RECURSIVE Trim(_)
\* a text without its leading and trailing whitespace
Trim(t) ==
    IF t = <<>> THEN <<>>
    ELSE IF IsWs(Head(t)) THEN Trim(Tail(t))
    ELSE IF IsWs(t[Len(t)]) THEN Trim(SubSeq(t, 1, Len(t) - 1))
    ELSE t

C12_NeverRaises ==
    res.status # "pending" =>
        /\ res.status = "ok"
        /\ res.rule = "none" => (res.viz = NoViz /\ Cleaned(buf, res) = buf)

(***************************************************************************)
(* Further properties of the turn loop (Spec)                              *)
(***************************************************************************)
\* C13: when the tools node is done, every requested call, also one naming an
\* unregistered tool and one whose tool failed, has a tool message with its
\* identifier that carries the outcome (an error for an unregistered name), the
\* turn goes from Invoking to Generating, and no outcome of a tool ends the turn.
C13_ToolFailureIsResult ==
    [][\A t \in Threads :
         /\ (phase[t] = "Invoking" /\ phase'[t] # "Invoking") =>
               /\ phase'[t] = "Generating" /\ ~failed'[t]
               /\ Len(store'[t]) = Len(store[t]) + Len(Last(store[t]).calls)
               /\ \A j \in (Len(store[t]) + 1)..Len(store'[t]) :
                     LET m == store'[t][j]
                         c == Last(store[t]).calls[j - Len(store[t])]
                     IN  /\ m.type = "tool" /\ m.call_id = c.id
                         /\ m.status = outcome[t][c.id]
                         /\ c.name \notin ToolNames => m.status = "error"
         /\ (failed'[t] /\ ~failed[t]) => phase[t] = "Generating"]_vars

\* a turn went on to Generating after an unregistered tool and a failing
\* registered tool were each answered with an error message
C13_Witness ==
    \E t \in Threads :
        /\ phase[t] \in {"Generating", "Routing", "Done"} /\ ~failed[t]
        /\ \E i \in 1..Len(store[t]), j \in 1..Len(store[t]) :
              /\ store[t][i].type = "tool" /\ store[t][i].status = "error"
              /\ store[t][j].type = "tool" /\ store[t][j].status = "error"
              /\ \E k \in 1..Len(store[t]) : \E a \in 1..Len(store[t][k].calls),
                                               b \in 1..Len(store[t][k].calls) :
                    /\ store[t][k].calls[a].id = store[t][i].call_id
                    /\ store[t][k].calls[a].name = UnknownTool
                    /\ store[t][k].calls[b].id = store[t][j].call_id
                    /\ store[t][k].calls[b].name \in ToolNames

\* the thread under which a message or call identifier was drawn
Owner(id) == CHOOSE t \in Threads : id >= IdBase(t) /\ id < IdBase(t) + 100

OwnedBy(h, t) ==
    \A i \in 1..Len(h) :
        /\ Owner(h[i].id) = t
        /\ h[i].type = "tool" => Owner(h[i].call_id) = t
        /\ \A c \in 1..Len(h[i].calls) : Owner(h[i].calls[c].id) = t

\* C14: the history of a thread and the messages given to the model in a turn
\* on it hold only messages appended under that thread, however the turns of
\* the threads interleave; a turn from a request without thread identifier
\* started from an empty history.
C14_SessionIsolation ==
    \A t \in Threads :
        /\ OwnedBy(store[t], t) /\ OwnedBy(seen[t], t) /\ OwnedBy(before[t], t)
        /\ anon[t] => before[t] = <<>>

\* two threads are in turns that interleave, each with its own model input, one
\* of them from a request without thread identifier
C14_Witness ==
    \E a \in Threads, b \in Threads :
        /\ a # b /\ seen[a] # <<>> /\ seen[b] # <<>>
        /\ phase[a] # "Done" /\ phase[b] # "Done"
        /\ anon[b] /\ ~anon[a]

IsPrefix(a, b) == Len(a) <= Len(b) /\ SubSeq(b, 1, Len(a)) = a

\* C15: every step keeps the history of every thread as a prefix of the new
\* history, without two messages of one identifier, and a Generating step adds
\* exactly one message, the assistant's.
C15_AppendOnly ==
    [][\A t \in Threads :
         /\ IsPrefix(store[t], store'[t])
         /\ \A i \in 1..Len(store'[t]), j \in 1..Len(store'[t]) :
               store'[t][i].id = store'[t][j].id => i = j
         /\ (phase[t] = "Generating" /\ phase'[t] = "Routing") =>
               /\ Len(store'[t]) = Len(store[t]) + 1
               /\ Last(store'[t]).type = "ai"]_vars

\* a Generating step of a second round has added its message to a history of
\* at least three messages
C15_Witness ==
    \E t \in Threads :
        /\ phase[t] = "Routing" /\ Len(seen[t]) >= 3
        /\ store[t] = Append(seen[t], Last(store[t]))

\* C19: no two tool calls of a turn are in flight at the same time.
C19_OneAtATime ==
    \A t \in Threads : Cardinality(inflight[t]) <= 1

Boundaries(es) == {k \in 1..Len(es) : es[k].kind = "boundary"}

\* C16: the strings yielded are those of the increments in order, and for each
\* increment there is one boundary output, the first of its strings, if it is a
\* model increment with finish reason "tool_calls", and none otherwise.
C16_BoundaryIffToolCalls ==
    /\ events = Flat([i \in 1..Len(fed) |-> Classify(fed[i])])
    /\ \A i \in 1..Len(fed) :
          LET es == Classify(fed[i])
          IN  IF fed[i].ai /\ fed[i].finish = "tool_calls"
              THEN Boundaries(es) = {1}
              ELSE Boundaries(es) = {}

\* an increment with finish reason "tool_calls" and an argument fragment gave
\* the boundary and then the fragment
C16_Witness ==
    /\ Len(fed) = 1 /\ fed[1].finish = "tool_calls" /\ fed[1].tcc # <<>>
    /\ Len(events) = 2 /\ events[1].kind = "boundary" /\ events[2].kind = "arg"

\* C17: no shape of an increment makes the response end with an error: an error
\* record comes only from an exception of the agent stream or of the detection.
C17_NoShapeFailsTurn ==
    \A i \in 1..Len(out) :
        out[i].type = "error" => out[i].body \in {<<"Exception">>, <<"UnicodeDecodeError">>}

\* C20: once the response has started its first record is the thread_id record,
\* no other record is one, and it carries the thread_id of the request if the
\* request has one and a new identifier if not; before, nothing is sent.
C20_ThreadIdFirst ==
    /\ pc = "new" => out = <<>>
    /\ pc # "new" =>
          /\ Len(out) >= 1 /\ out[1].type = "thread_id"
          /\ \A i \in 2..Len(out) : out[i].type # "thread_id"
          /\ request # NoThreadId => out[1].body = <<request>>
          /\ request = NoThreadId => \E u \in FreshIds : out[1].body = <<u>>

\* a turn with a given thread_id failed at once: the thread_id record, then
\* the error record
C20_Witness ==
    /\ pc = "closed" /\ request = "thread-a" /\ Len(out) = 2
    /\ out[1].type = "thread_id" /\ out[1].body = <<"thread-a">>
    /\ out[2].type = "error"

\* the tokens of the records of one type, in the order sent
Sent(type) ==
    LET rs == SelectSeq(out, LAMBDA r : r.type = type)
    IN  Flat([i \in 1..Len(rs) |-> rs[i].body])

\* the tokens of the source spans of the visualization records
Spans == UNION {out[i].span : i \in {j \in 1..Len(out) : out[j].type = "visualization"}}

\* the tokens of the strings of one classifier branch the loop has taken
HandedOf(kind) == SelectSeq(handed, LAMBDA k : k.kind = kind)

\* C21: when a response completes, its content records, put end to end, are the
\* text fragments of the turn without the spans of the detected artifacts: none
\* is sent twice, none is dropped.
C21_ContentIsText ==
    (pc = "closed" /\ Last(out).type = "complete")
        => Sent("content") = SelectSeq(HandedOf("text"), LAMBDA k : k.id \notin Spans)

\* C22: argument fragments and turn boundaries are never in the accumulated
\* buffer, never in a content record, and never in the span of a visualization.
C22_OnlyTextFeeds ==
    LET other == Ids(HandedOf("arg")) \cup Ids(HandedOf("boundary"))
    IN  /\ Ids(acc) \cap other = {}
        /\ Ids(Sent("content")) \cap other = {}
        /\ Spans \cap other = {}

\* the tool names of the tool-call starts the classifier produced, in order
StartNames ==
    SelectSeq(HandedOf("start"), LAMBDA k : k.tok \notin {NL, MARK, SP, GT})

\* C23: the tool_call records are, in order, the tool-call starts the classifier
\* produced, each with the name of its call; no other string makes one.
C23_ToolCallIffStart ==
    /\ Sent("tool_call") = StartNames
    /\ Len(SelectSeq(out, LAMBDA r : r.type = "tool_call")) = Len(StartNames)

(***************************************************************************)
(* Properties of the visualization tool (VizSpec)                          *)
(***************************************************************************)
\* C24: a call returns the success message only if it wrote the figure file
\* of its name itself, a call whose code leaves no figure returns an error
\* message whatever files earlier calls left, and no call raises.
C24_SuccessIffWritten ==
    \A i \in 1..Len(vizCalls) :
        /\ vizCalls[i].result = "success" => vizCalls[i].wrote
        /\ vizCalls[i].code = "nofig" =>
              vizCalls[i].result \in {"error_no_database", "error_failed", "error_executing"}
        /\ vizCalls[i].result # "raised"

====
